---- MODULE Spec2Model ----
(***************************************************************************)
(* A model of minaws: the four service callers (ec2, s3, secretsmanager,   *)
(* ssm), their shared signing step (request.rs) and their send loops, and  *)
(* the instance-metadata client (imds.rs) with its write-once token cell.  *)
(*                                                                         *)
(* One public operation is modelled as the sequence of steps its code      *)
(* runs on the calling thread:                                             *)
(*   Call     the public method builds the draft request                   *)
(*   Prepare  send() encodes the body                                      *)
(*   SignStep send() calls sign_request                                    *)
(*   Attempt  one iteration of the loop in send()                          *)
(*   Finish   the match on send()'s result in the public method            *)
(* Tick lets the system clock advance between any two steps.               *)
(*                                                                         *)
(* Specifications:                                                         *)
(*   Spec, SpecFair  one public operation (SpecFair: the thread runs on)   *)
(*   SpecPair        two operations at once on one Api value               *)
(*   SpecImds        threads calling Imds::get on one Imds value           *)
(*   SpecFromMap     Credentials::from_map on the maps of a document       *)
(*   SpecSign        sign_request and update_request on any arguments      *)
(*   SpecCreds       Imds::get_credentials, called again and again         *)
(*   SpecParams      the parameter list describe_volumes builds            *)
(***************************************************************************)
EXTENDS Integers, Sequences, FiniteSets, TLC

VARIABLES
    api,        \* the Api value: [credentials, region]
    clock,      \* SystemTime::now(), in seconds
    pc,         \* position of the calling thread inside the operation
    op,         \* the public operation being run
    input,      \* its input
    draft,      \* the draft ureq::Request built by the public operation
    body,       \* the encoded payload (send()'s `body`)
    req,        \* send()'s `req` after sign_request
    retries,    \* send()'s `retries`
    sent,       \* every request put on the wire, in order
    sleeps,     \* every thread::sleep call, in order
    failures,   \* the Err(e) of every failed attempt, in order
    signCalls,  \* every call of sign_request: its time, whether it succeeded
                \* and the payload it was given
    sendResult, \* what send() returned
    result      \* what the public operation returned

sendVars == <<api, clock, pc, op, input, draft, body, req, retries, sent,
              sleeps, failures, signCalls, sendResult, result>>

VARIABLES
    cell,       \* the OnceCell<String> of Imds: its state and its value
    tpc,        \* position of each caller thread inside Imds::get
    tcalls,     \* number of calls of Imds::get each thread has started
    ttoken,     \* the token each thread got from get_or_try_init
    puts,       \* every token-fetch PUT, in order: who issued it and its outcome
    gets,       \* every metadata GET, in order: who issued it and the token sent
    tresult     \* what Imds::get returned to each thread

imdsVars == <<cell, tpc, tcalls, ttoken, puts, gets, tresult>>

VARIABLES
    calls       \* the operations running at once on the one Api value: for each,
                \* the locals of its thread

pairVars == <<calls>>

VARIABLES
    map,            \* the HashMap<String, String> Credentials::from_map is given
    fromMapResult   \* what Credentials::from_map returned

mapVars == <<map, fromMapResult>>

VARIABLES
    signArgs,           \* the arguments of a call of sign_request, and its time
    signing_settings,   \* sign_request's `signing_settings.payload_checksum_kind`
    signOut,            \* what sign_request returned
    updateArgs,         \* the arguments of a call of update_request
    updateOut           \* what update_request returned

signVars == <<signArgs, signing_settings, signOut, updateArgs, updateOut>>

VARIABLES
    cpc,            \* position of the thread inside Imds::get_credentials
    invocations,    \* number of calls of get_credentials started
    http,           \* the HTTP calls of the current invocation, in order
    role,           \* get_credentials' `role`
    document,       \* get_credentials' `credentials_str`, as what it parses into
    credsResult     \* what get_credentials returned

credVars == <<cpc, invocations, http, role, document, credsResult>>

VARIABLES
    dvInput,    \* the DescribeVolumesInput describe_volumes is given
    dvParams    \* describe_volumes' `params`, as handed to send()

paramVars == <<dvInput, dvParams>>

\* What the steps of one operation, those of Imds::get, those of operations
\* running at once, Credentials::from_map, sign_request, get_credentials and
\* the building of describe_volumes' parameters leave alone.
offSend == <<imdsVars, pairVars, mapVars, signVars, credVars, paramVars>>
offImds == <<sendVars, pairVars, mapVars, signVars, credVars, paramVars>>
offPair == <<sendVars, imdsVars, mapVars, signVars, credVars, paramVars>>
offMap == <<sendVars, imdsVars, pairVars, signVars, credVars, paramVars>>
offSign == <<imdsVars, pairVars, mapVars, credVars, paramVars>>
offCreds == <<sendVars, tpc, tcalls, ttoken, puts, gets, tresult, pairVars, mapVars,
              signVars, paramVars>>
offParams == <<sendVars, imdsVars, pairVars, mapVars, signVars, credVars>>

vars == <<sendVars, imdsVars, pairVars, mapVars, signVars, credVars, paramVars>>

None == <<>>
Some(v) == <<v>>

(***************************************************************************)
(* Bounds of the model.                                                    *)
(***************************************************************************)
MaxClock == 2
NumCallers == 2
MaxGets == 2
MaxInvocations == 2
MaxFilters == 2
MaxValues == 2
MaxVolumeIds == 2

(***************************************************************************)
(* Program constants: the retry limit and the backoff unit of each send    *)
(* loop.                                                                   *)
(***************************************************************************)
EC2_RETRY_LIMIT == 3
S3_RETRY_LIMIT == 3
SECRETSMANAGER_RETRY_LIMIT == 3
SSM_RETRY_LIMIT == 3
EC2_BACKOFF_MS == 10
S3_BACKOFF_MS == 10
SECRETSMANAGER_BACKOFF_MS == 10
SSM_BACKOFF_MS == 10

(***************************************************************************)
(* Values.                                                                 *)
(***************************************************************************)
Services == {"ec2", "s3", "secretsmanager", "ssm"}

Ops == {"attach_volume", "describe_volumes", "list_objects_v2", "get_object",
        "get_secret_value", "get_parameter", "get_parameters_by_path"}

ServiceOf(o) ==
    CASE o \in {"attach_volume", "describe_volumes"} -> "ec2"
      [] o \in {"list_objects_v2", "get_object"} -> "s3"
      [] o = "get_secret_value" -> "secretsmanager"
      [] o \in {"get_parameter", "get_parameters_by_path"} -> "ssm"

\* aws_credential_types::Credentials values an Api may hold: a long-term pair
\* and a temporary one with a session token.
CredentialsSet ==
    { [access_key_id |-> "AKIALONG", secret_access_key |-> "secret1",
       session_token |-> None],
      [access_key_id |-> "ASIATEMP", secret_access_key |-> "secret2",
       session_token |-> Some("tok")] }

Regions == {"us-east-1"}

\* The inputs each public operation is called with.
Inputs(o) ==
    CASE o = "attach_volume" ->
           { [device |-> "xvdf", instance_id |-> "i-1", volume_id |-> "vol-1"] }
      [] o = "describe_volumes" ->
           { [filters |-> None, max_results |-> None, next_token |-> None,
              volume_ids |-> None],
             [filters |-> Some(<< [name |-> "status", values |-> <<"in-use", "available">>] >>),
              max_results |-> Some(5), next_token |-> Some("nt"),
              volume_ids |-> Some(<<"vol-1", "vol-2">>)] }
      [] o = "list_objects_v2" ->
           { [bucket |-> "b", continuation_token |-> None, prefix |-> None],
             [bucket |-> "b", continuation_token |-> Some("ct"), prefix |-> Some("p")] }
      [] o = "get_object" ->
           { [bucket |-> "b", key |-> "k"] }
      [] o = "get_secret_value" ->
           { [secret_id |-> "s", version_id |-> None, version_stage |-> None] }
      [] o = "get_parameter" ->
           { [name |-> "n", with_decryption |-> Some("true")] }
      [] o = "get_parameters_by_path" ->
           { [max_results |-> None, next_token |-> None, with_decryption |-> None,
              path |-> "pp", recursive |-> Some("true")] }

(***************************************************************************)
(* ureq::Request: method, URL, query pairs in insertion order, headers.    *)
(***************************************************************************)
NoHeaders == [n \in {} |-> ""]

NewRequest(method, url) ==
    [method |-> method, url |-> url, query |-> <<>>, headers |-> NoHeaders]

\* Request::set: the header is added, or replaces the one of that name.
SetHeader(r, name, value) ==
    [r EXCEPT !.headers =
        [n \in DOMAIN r.headers \cup {name} |->
            IF n = name THEN value ELSE r.headers[n]]]

\* Request::query: the pair is appended to the query string.
AddQuery(r, name, value) ==
    [r EXCEPT !.query = Append(r.query, <<name, value>>)]

(***************************************************************************)
(* ec2.rs: the ToParams flattening and the parameter lists of the two      *)
(* operations.                                                             *)
(***************************************************************************)
RECURSIVE FilterValues(_, _, _)
\* Filter::to_params, the loop over self.values from index i on.
FilterValues(prefix, values, i) ==
    IF i > Len(values) THEN <<>>
    ELSE <<  <<prefix \o ".Value." \o ToString(i), values[i]>>  >>
         \o FilterValues(prefix, values, i + 1)

FilterToParams(f, prefix) ==
    <<  <<prefix \o ".Name", f.name>>  >> \o FilterValues(prefix, f.values, 1)

RECURSIVE FiltersToParams(_, _, _)
\* Vec<Filter>::to_params, the loop from index i on.
FiltersToParams(filters, prefix, i) ==
    IF i > Len(filters) THEN <<>>
    ELSE FilterToParams(filters[i], prefix \o "." \o ToString(i))
         \o FiltersToParams(filters, prefix, i + 1)

\* A variant of Vec<String>::to_params that numbers with enumerate()'s index
\* as it is, from 0.
StringsToParamsFromZero(values, prefix, i) ==
    [k \in 1..(Len(values) - i + 1) |->
        <<prefix \o "." \o ToString(i + k - 2), values[i + k - 1]>>]

RECURSIVE StringsToParams(_, _, _)
\* Vec<String>::to_params, the loop from index i on.
StringsToParams(values, prefix, i) ==
    IF i > Len(values) THEN <<>>
    ELSE <<  <<prefix \o "." \o ToString(i), values[i]>>  >>
         \o StringsToParams(values, prefix, i + 1)

AttachVolumeParams(in) ==
    << <<"Action", "AttachVolume">>, <<"Version", "2016-11-15">>,
       <<"Device", in.device>>, <<"InstanceId", in.instance_id>>,
       <<"VolumeId", in.volume_id>> >>

DescribeVolumesParams(in) ==
    << <<"Action", "DescribeVolumes">>, <<"Version", "2016-11-15">> >>
    \o (IF in.filters # None THEN FiltersToParams(in.filters[1], "Filter", 1) ELSE <<>>)
    \o (IF in.max_results # None
          THEN << <<"MaxResults", ToString(in.max_results[1])>> >> ELSE <<>>)
    \o (IF in.next_token # None THEN << <<"NextToken", in.next_token[1]>> >> ELSE <<>>)
    \o (IF in.volume_ids # None THEN StringsToParams(in.volume_ids[1], "VolumeId", 1) ELSE <<>>)

RECURSIVE FormUrlEncode(_)
\* form_urlencoded::Serializer: k=v pairs joined by "&" (the values used here
\* need no percent-escape).
FormUrlEncode(params) ==
    IF params = <<>> THEN ""
    ELSE params[1][1] \o "=" \o params[1][2]
         \o (IF Len(params) > 1 THEN "&" ELSE "") \o FormUrlEncode(Tail(params))

RECURSIVE JsonFields(_)
\* serde_json over a struct with skip_serializing_none: the fields that are
\* Some, in declaration order.
JsonFields(fields) ==
    IF fields = <<>> THEN ""
    ELSE LET f == fields[1]
             rest == JsonFields(Tail(fields))
         IN IF f[2] = None THEN rest
            ELSE "\"" \o f[1] \o "\":\"" \o f[2][1] \o "\""
                 \o (IF rest = "" THEN "" ELSE ",") \o rest

ToJson(o, in) ==
    "{" \o JsonFields(
        CASE o = "get_secret_value" ->
               << <<"SecretId", Some(in.secret_id)>>, <<"VersionId", in.version_id>>,
                  <<"VersionStage", in.version_stage>> >>
          [] o = "get_parameter" ->
               << <<"Name", Some(in.name)>>, <<"WithDecryption", in.with_decryption>> >>
          [] o = "get_parameters_by_path" ->
               << <<"MaxResults", in.max_results>>, <<"NextToken", in.next_token>>,
                  <<"Path", Some(in.path)>>, <<"Recursive", in.recursive>>,
                  <<"WithDecryption", in.with_decryption>> >>) \o "}"

\* The payload send() signs and hands to the transport.
EncodeBody(o, in) ==
    CASE o = "attach_volume" -> FormUrlEncode(AttachVolumeParams(in))
      [] o = "describe_volumes" -> FormUrlEncode(DescribeVolumesParams(in))
      [] ServiceOf(o) = "s3" -> ""
      [] OTHER -> ToJson(o, in)

(***************************************************************************)
(* The draft request each public operation builds.                         *)
(***************************************************************************)
Ec2Url(region) == "https://" \o "ec2" \o "." \o region \o ".amazonaws.com"
S3Url(region, bucket) ==
    "https://" \o bucket \o "." \o "s3" \o "." \o region \o ".amazonaws.com"
SecretsManagerUrl(region) == "https://" \o "secretsmanager" \o "." \o region \o ".amazonaws.com"
SsmUrl(region) == "https://" \o "ssm" \o "." \o region \o ".amazonaws.com"

JsonRequest(url, target) ==
    SetHeader(SetHeader(NewRequest("POST", url),
                        "Content-Type", "application/x-amz-json-1.1"),
              "X-Amz-Target", target)

ListObjectsRequest(region, in) ==
    LET r0 == AddQuery(NewRequest("GET", S3Url(region, in.bucket) \o "/"), "list-type", "2")
        r1 == IF in.continuation_token # None
                THEN AddQuery(r0, "continuation-token", in.continuation_token[1]) ELSE r0
    IN IF in.prefix # None THEN AddQuery(r1, "prefix", in.prefix[1]) ELSE r1

Draft(o, in, region) ==
    CASE o = "attach_volume" -> NewRequest("POST", Ec2Url(region))
      [] o = "describe_volumes" -> NewRequest("POST", Ec2Url(region) \o "/")
      [] o = "list_objects_v2" -> ListObjectsRequest(region, in)
      [] o = "get_object" -> NewRequest("GET", S3Url(region, in.bucket) \o "/" \o in.key)
      [] o = "get_secret_value" ->
           JsonRequest(SecretsManagerUrl(region), "secretsmanager.GetSecretValue")
      [] o = "get_parameter" -> JsonRequest(SsmUrl(region), "AmazonSSM.GetParameter")
      [] o = "get_parameters_by_path" ->
           JsonRequest(SsmUrl(region), "AmazonSSM.GetParametersByPath")

(***************************************************************************)
(* request.rs: sign_request and update_request.  The SigV4 computation of  *)
(* aws_sigv4 is modelled by what it covers: the content hash is a function *)
(* of the payload, the signature a function of the secret key, the time,   *)
(* the scope, the request line, the headers and the content hash.          *)
(***************************************************************************)
\* A variant of the test on the service name that ignores its case.
PayloadChecksumKindAnyCase(service) ==
    IF service \in {"s3", "S3"} THEN "XAmzSha256" ELSE "NoHeader"

PayloadChecksumKind(service) ==
    IF service = "s3" THEN "XAmzSha256" ELSE "NoHeader"

ContentHash(bytes) == "sha256(" \o bytes \o ")"

Signature(request, bytes, identity, region, service, time) ==
    "hmac(" \o ToString(<<identity.secret_access_key, time, region, service,
                          request.method, request.url, request.query,
                          request.headers, ContentHash(bytes)>>) \o ")"

\* aws_sigv4::http_request::sign: the headers and query parameters to merge.
SigningInstructions(request, bytes, identity, region, service, time) ==
    [headers |->
        << <<"x-amz-date", ToString(time)>> >>
        \o (IF PayloadChecksumKind(service) = "XAmzSha256"
              THEN << <<"x-amz-content-sha256", ContentHash(bytes)>> >> ELSE <<>>)
        \o (IF identity.session_token # None
              THEN << <<"x-amz-security-token", identity.session_token[1]>> >> ELSE <<>>)
        \o << <<"authorization",
                "AWS4-HMAC-SHA256 Credential=" \o identity.access_key_id \o "/"
                \o ToString(time) \o "/" \o region \o "/" \o service \o "/aws4_request"
                \o ", Signature="
                \o Signature(request, bytes, identity, region, service, time)>> >>,
     params |-> <<>>]

RECURSIVE SetHeaders(_, _)
SetHeaders(r, hs) ==
    IF hs = <<>> THEN r ELSE SetHeaders(SetHeader(r, hs[1][1], hs[1][2]), Tail(hs))

RECURSIVE AddQueries(_, _)
AddQueries(r, ps) ==
    IF ps = <<>> THEN r ELSE AddQueries(AddQuery(r, ps[1][1], ps[1][2]), Tail(ps))

\* A variant of update_request without the loop over the query parameters.
update_requestHeadersOnly(request, instructions) ==
    SetHeaders(request, instructions.headers)

update_request(request, instructions) ==
    AddQueries(SetHeaders(request, instructions.headers), instructions.params)

\* sign_request when SignableRequest::new and sign both succeed.
sign_request(request, bytes, identity, region, service, time) ==
    update_request(request,
                   SigningInstructions(request, bytes, identity, region, service, time))

(***************************************************************************)
(* The errors of the service callers.  A response, and an error made from  *)
(* one, is [kind, status, parses, attempt]: parses says whether the body   *)
(* deserializes into the shape the caller reads it as, attempt is the      *)
(* attempt that produced it (0: none).                                     *)
(***************************************************************************)
StatusCodes == {404, 500}

\* What the transport can answer to the n-th transmission.
Outcomes(n) ==
    { [kind |-> "Ok", status |-> 200, parses |-> b, attempt |-> n] : b \in BOOLEAN }
    \cup { [kind |-> "Transport", status |-> 0, parses |-> FALSE, attempt |-> n] }
    \cup { [kind |-> "Status", status |-> c, parses |-> b, attempt |-> n] :
             c \in StatusCodes, b \in BOOLEAN }

\* impl From<ureq::Error> for Error.
FromUreqError(err) ==
    IF err.kind = "Status" THEN [err EXCEPT !.kind = "Api"] ELSE err

JsonError == [kind |-> "Json", status |-> 0, parses |-> FALSE, attempt |-> 0]
SigningError == [kind |-> "Request", status |-> 0, parses |-> FALSE, attempt |-> 0]

Ok(v) == [ok |-> TRUE, val |-> v]
Err(e) == [ok |-> FALSE, val |-> e]

(***************************************************************************)
(* send(): the body encoding, the signing step and the retry loop.         *)
(***************************************************************************)
\* A variant of the limits: the loop of s3 gives up one retry earlier.
RetryLimitShorterInS3(service) ==
    IF service = "s3" THEN S3_RETRY_LIMIT - 1 ELSE EC2_RETRY_LIMIT

RetryLimit(service) ==
    CASE service = "ec2" -> EC2_RETRY_LIMIT
      [] service = "s3" -> S3_RETRY_LIMIT
      [] service = "secretsmanager" -> SECRETSMANAGER_RETRY_LIMIT
      [] service = "ssm" -> SSM_RETRY_LIMIT

BackoffUnit(service) ==
    CASE service = "ec2" -> EC2_BACKOFF_MS
      [] service = "s3" -> S3_BACKOFF_MS
      [] service = "secretsmanager" -> SECRETSMANAGER_BACKOFF_MS
      [] service = "ssm" -> SSM_BACKOFF_MS

\* The body send() computes first: serde_json::to_vec(&input)? in
\* secretsmanager and ssm (ok says whether it succeeds), the form encoding in
\* ec2, nothing in s3.
SerializeBody(ok, o, in) ==
    IF ServiceOf(o) \in {"secretsmanager", "ssm"} /\ ~ok
      THEN Err(JsonError)
      ELSE Ok(EncodeBody(o, in))

\* A variant of the signing step: a signing error is swallowed and the draft
\* request is used as it is.
SignOutcomeFallsBackToDraft(ok, request, bytes, credentials, region, service, time) ==
    IF ok
      THEN Ok(sign_request(request, bytes, credentials, region, service, time))
      ELSE Ok(request)

\* The Result of sign_request(req, body, &identity, &self.region, SERVICE_NAME);
\* ok says whether SignableRequest::new and sign succeed.
SignOutcome(ok, request, bytes, credentials, region, service, time) ==
    IF ok
      THEN Ok(sign_request(request, bytes, credentials, region, service, time))
      ELSE Err(SigningError)

\* A variant of the transmission: the request goes out with call() in every
\* service, without the body that was signed.
WireWithoutBody(service, request, bytes) ==
    [request |-> request, payload |-> ""]

\* What one attempt puts on the wire: req.clone().call() in s3,
\* req.clone().send_bytes(body) in the others.
Wire(service, request, bytes) ==
    [request |-> request, payload |-> IF service = "s3" THEN "" ELSE bytes]

\* Variants of the match in the loop, each with one slip.
\* The limit counts attempts instead of retries.
LoopStepLimitCountsAttempts(service, r, fs, out) ==
    IF out.kind = "Ok"
      THEN [return |-> Some(Ok(out)), sleep |-> None, retries |-> r]
      ELSE LET e == FromUreqError(out)
           IN IF r + 1 >= RetryLimit(service)
                THEN [return |-> Some(Err(e)), sleep |-> None, retries |-> r]
                ELSE [return |-> None,
                      sleep |-> IF r > 0 THEN Some(r * BackoffUnit(service)) ELSE None,
                      retries |-> r + 1]

\* The first error is kept and returned at exhaustion.
LoopStepReturnsFirstError(service, r, fs, out) ==
    IF out.kind = "Ok"
      THEN [return |-> Some(Ok(out)), sleep |-> None, retries |-> r]
      ELSE IF r >= RetryLimit(service)
             THEN [return |-> Some(Err(fs[1])), sleep |-> None, retries |-> r]
             ELSE [return |-> None,
                   sleep |-> IF r > 0 THEN Some(r * BackoffUnit(service)) ELSE None,
                   retries |-> r + 1]

\* The sleep is taken after every attempt that follows a retry, successful or
\* not.
LoopStepSleepsBeforeMatch(service, r, fs, out) ==
    IF out.kind = "Ok"
      THEN [return |-> Some(Ok(out)),
            sleep |-> IF r > 0 THEN Some(r * BackoffUnit(service)) ELSE None,
            retries |-> r]
      ELSE LET e == FromUreqError(out)
           IN IF r >= RetryLimit(service)
                THEN [return |-> Some(Err(e)), sleep |-> None, retries |-> r]
                ELSE [return |-> None,
                      sleep |-> IF r > 0 THEN Some(r * BackoffUnit(service)) ELSE None,
                      retries |-> r + 1]

\* The backoff is computed from the counter after its increment.
LoopStepBackoffAfterIncrement(service, r, fs, out) ==
    IF out.kind = "Ok"
      THEN [return |-> Some(Ok(out)), sleep |-> None, retries |-> r]
      ELSE LET e == FromUreqError(out)
           IN IF r >= RetryLimit(service)
                THEN [return |-> Some(Err(e)), sleep |-> None, retries |-> r]
                ELSE [return |-> None,
                      sleep |-> IF r > 0 THEN Some((r + 1) * BackoffUnit(service)) ELSE None,
                      retries |-> r + 1]

\* A 4xx status is returned at once, without a retry.
LoopStepClientErrorsTerminal(service, r, fs, out) ==
    IF out.kind = "Ok"
      THEN [return |-> Some(Ok(out)), sleep |-> None, retries |-> r]
      ELSE LET e == FromUreqError(out)
           IN IF r >= RetryLimit(service) \/ (e.kind = "Api" /\ e.status \in 400..499)
                THEN [return |-> Some(Err(e)), sleep |-> None, retries |-> r]
                ELSE [return |-> None,
                      sleep |-> IF r > 0 THEN Some(r * BackoffUnit(service)) ELSE None,
                      retries |-> r + 1]

\* The sleep comes before the test of the limit: the last failure is slept
\* on too.
LoopStepSleepsBeforeLimitCheck(service, r, fs, out) ==
    IF out.kind = "Ok"
      THEN [return |-> Some(Ok(out)), sleep |-> None, retries |-> r]
      ELSE LET e == FromUreqError(out)
               nap == IF r > 0 THEN Some(r * BackoffUnit(service)) ELSE None
           IN IF r >= RetryLimit(service)
                THEN [return |-> Some(Err(e)), sleep |-> nap, retries |-> r]
                ELSE [return |-> None, sleep |-> nap, retries |-> r + 1]

\* The limit is tested with > in the place of >=.
LoopStepLimitOffByOne(service, r, fs, out) ==
    IF out.kind = "Ok"
      THEN [return |-> Some(Ok(out)), sleep |-> None, retries |-> r]
      ELSE LET e == FromUreqError(out)
           IN IF r > RetryLimit(service)
                THEN [return |-> Some(Err(e)), sleep |-> None, retries |-> r]
                ELSE [return |-> None,
                      sleep |-> IF r > 0 THEN Some(r * BackoffUnit(service)) ELSE None,
                      retries |-> r + 1]

\* The counter is not advanced on a failure.
LoopStepCounterStuck(service, r, fs, out) ==
    IF out.kind = "Ok"
      THEN [return |-> Some(Ok(out)), sleep |-> None, retries |-> r]
      ELSE LET e == FromUreqError(out)
           IN IF r >= RetryLimit(service)
                THEN [return |-> Some(Err(e)), sleep |-> None, retries |-> r]
                ELSE [return |-> None,
                      sleep |-> IF r > 0 THEN Some(r * BackoffUnit(service)) ELSE None,
                      retries |-> r]

\* The match in the loop of send(), on the outcome `out` of the attempt just
\* made with the counter at r; fs are the errors of the failed attempts so far,
\* the one of this attempt last.  The result says what send() returns (if it
\* does), what it sleeps (if it does) and the counter afterwards.
LoopStep(service, r, fs, out) ==
    IF out.kind = "Ok"
      THEN [return |-> Some(Ok(out)), sleep |-> None, retries |-> r]
      ELSE LET e == FromUreqError(out)
           IN IF r >= RetryLimit(service)
                THEN [return |-> Some(Err(e)), sleep |-> None, retries |-> r]
                ELSE [return |-> None,
                      sleep |-> IF r > 0 THEN Some(r * BackoffUnit(service)) ELSE None,
                      retries |-> r + 1]

(***************************************************************************)
(* The match on send()'s result in every public operation.                 *)
(***************************************************************************)
\* The deserializer of a service: serde_xml_rs in ec2 and s3, serde_json in
\* secretsmanager and ssm.
DecodeErrorKind(service) ==
    IF service \in {"ec2", "s3"} THEN "Xml" ELSE "Json"

\* The domain error variant of a service.
DomainErrorKind(service) ==
    CASE service = "ec2" -> "EC2"
      [] service = "s3" -> "S3"
      [] service = "secretsmanager" -> "SecretsManager"
      [] service = "ssm" -> "SSM"

\* A variant of the match: when the error body does not deserialize, the
\* original Api error is returned.
MapResultKeepsApiError(o, sr) ==
    LET service == ServiceOf(o)
        v == sr.val
    IN IF sr.ok
         THEN IF o = "get_object" \/ v.parses
                THEN Ok(v)
                ELSE Err([v EXCEPT !.kind = DecodeErrorKind(service)])
         ELSE IF v.kind = "Api" /\ v.parses
                THEN Err([v EXCEPT !.kind = DomainErrorKind(service)])
                ELSE Err(v)

MapResult(o, sr) ==
    LET service == ServiceOf(o)
        v == sr.val
    IN IF sr.ok
         THEN IF o = "get_object" \/ v.parses
                THEN Ok(v)
                ELSE Err([v EXCEPT !.kind = DecodeErrorKind(service)])
         ELSE IF v.kind = "Api"
                THEN IF v.parses
                       THEN Err([v EXCEPT !.kind = DomainErrorKind(service)])
                       ELSE Err([v EXCEPT !.kind = DecodeErrorKind(service)])
                ELSE Err(v)

\* The threads that share one Imds value.
Callers == 1..NumCallers

\* The threads that run an operation at once on one Api value, and the locals
\* of one that has not started: its position, its operation, send()'s `body`,
\* `req` and `retries`, what it put on the wire, what it slept, what send()
\* and the operation returned, and what the transport answered to it.
Calls == {"a", "b"}

NewCall ==
    [pc |-> "idle", op |-> "none", body |-> "", req |-> None, retries |-> 0,
     sent |-> <<>>, sleeps |-> <<>>, sendResult |-> None, result |-> None,
     outs |-> <<>>]

(***************************************************************************)
(* The steps of one operation.                                             *)
(***************************************************************************)
Init ==
    /\ api \in [credentials : CredentialsSet, region : Regions]
    /\ clock = 0
    /\ pc = "idle"
    /\ op = "none"
    /\ input = None
    /\ draft = None
    /\ body = ""
    /\ req = None
    /\ retries = 0
    /\ sent = <<>>
    /\ sleeps = <<>>
    /\ failures = <<>>
    /\ signCalls = <<>>
    /\ sendResult = None
    /\ result = None
    /\ cell = [state |-> "INCOMPLETE", value |-> ""]
    /\ tpc = [t \in Callers |-> "idle"]
    /\ tcalls = [t \in Callers |-> 0]
    /\ ttoken = [t \in Callers |-> ""]
    /\ puts = <<>>
    /\ gets = <<>>
    /\ tresult = [t \in Callers |-> "none"]
    /\ calls = [c \in Calls |-> NewCall]
    /\ map = None
    /\ fromMapResult = None
    /\ signArgs = None
    /\ signing_settings = None
    /\ signOut = None
    /\ updateArgs = None
    /\ updateOut = None
    /\ cpc = "idle"
    /\ invocations = 0
    /\ http = <<>>
    /\ role = None
    /\ document = None
    /\ credsResult = None
    /\ dvInput = None
    /\ dvParams = None

\* The system clock advances.
Tick ==
    /\ clock < MaxClock
    /\ pc # "done"
    /\ clock' = clock + 1
    /\ UNCHANGED offSend
    /\ UNCHANGED <<api, pc, op, input, draft, body, req, retries, sent, sleeps,
                   failures, signCalls, sendResult, result>>

\* A public operation is entered and builds its request, up to the call of
\* send().
Call(o, in) ==
    /\ pc = "idle"
    /\ op' = o
    /\ input' = Some(in)
    /\ draft' = Some(Draft(o, in, api.region))
    /\ pc' = "send"
    /\ UNCHANGED offSend
    /\ UNCHANGED <<api, clock, body, req, retries, sent, sleeps, failures,
                   signCalls, sendResult, result>>

\* send() encodes the body; a serialization error is returned by `?`.
Prepare ==
    /\ pc = "send"
    /\ \E ok \in BOOLEAN :
         LET b == SerializeBody(ok, op, input[1])
         IN IF b.ok
              THEN /\ body' = b.val
                   /\ pc' = "sign"
                   /\ UNCHANGED sendResult
              ELSE /\ sendResult' = Some(b)
                   /\ pc' = "returned"
                   /\ UNCHANGED body
    /\ UNCHANGED offSend
    /\ UNCHANGED <<api, clock, op, input, draft, req, retries, sent, sleeps,
                   failures, signCalls, result>>

\* send() calls sign_request, which reads the clock; a signing error is
\* returned by `?`, otherwise the loop is entered with retries = 0.
SignStep ==
    /\ pc = "sign"
    /\ \E ok \in BOOLEAN :
         LET s == SignOutcome(ok, draft[1], body, api.credentials, api.region,
                              ServiceOf(op), clock)
         IN /\ signCalls' = Append(signCalls, [time |-> clock, ok |-> ok,
                                                payload |-> body])
            /\ IF s.ok
                 THEN /\ req' = Some(s.val)
                      /\ retries' = 0
                      /\ pc' = "loop"
                      /\ UNCHANGED sendResult
                 ELSE /\ sendResult' = Some(s)
                      /\ pc' = "returned"
                      /\ UNCHANGED <<req, retries>>
    /\ UNCHANGED offSend
    /\ UNCHANGED <<api, clock, op, input, draft, body, sent, sleeps, failures, result>>

\* One iteration of the loop: the request `r` is transmitted, the transport
\* answers, and the match decides.
AttemptUsing(r) ==
    /\ pc = "loop"
    /\ \E out \in Outcomes(Len(sent) + 1) :
         LET fs == IF out.kind = "Ok" THEN failures
                   ELSE Append(failures, FromUreqError(out))
             step == LoopStep(ServiceOf(op), retries, fs, out)
         IN /\ sent' = Append(sent, Wire(ServiceOf(op), r, body))
            /\ failures' = fs
            /\ retries' = step.retries
            /\ sleeps' = IF step.sleep # None
                           THEN Append(sleeps, [after |-> Len(sent) + 1, ms |-> step.sleep[1]])
                           ELSE sleeps
            /\ IF step.return # None
                 THEN /\ sendResult' = step.return
                      /\ pc' = "returned"
                 ELSE UNCHANGED <<sendResult, pc>>
    /\ UNCHANGED offSend
    /\ UNCHANGED <<api, clock, op, input, draft, body, req, signCalls, result>>

\* A variant of the loop: every attempt signs the draft request again.
AttemptSigningAgain ==
    AttemptUsing(sign_request(draft[1], body, api.credentials, api.region,
                              ServiceOf(op), clock))

Attempt == AttemptUsing(req[1])

\* A variant of the match: a body that does not deserialize sends the
\* operation back into the loop.
FinishRetryingOnDecodeError ==
    /\ pc = "returned"
    /\ LET r == MapResult(op, sendResult[1])
       IN IF ~r.ok /\ r.val.kind \in {"Xml", "Json"} /\ r.val.attempt > 0
                   /\ Len(sent) <= RetryLimit(ServiceOf(op)) + 1
            THEN pc' = "loop" /\ UNCHANGED result
            ELSE pc' = "done" /\ result' = Some(r)
    /\ UNCHANGED offSend
    /\ UNCHANGED <<api, clock, op, input, draft, body, req, retries, sent, sleeps,
                   failures, signCalls, sendResult>>

\* The public operation matches on what send() returned and returns.
Finish ==
    /\ pc = "returned"
    /\ result' = Some(MapResult(op, sendResult[1]))
    /\ pc' = "done"
    /\ UNCHANGED offSend
    /\ UNCHANGED <<api, clock, op, input, draft, body, req, retries, sent, sleeps,
                   failures, signCalls, sendResult>>

Next ==
    \/ Tick
    \/ \E o \in Ops : \E in \in Inputs(o) : Call(o, in)
    \/ Prepare
    \/ SignStep
    \/ Attempt
    \/ Finish

Spec == Init /\ [][Next]_vars

\* The same, with the calling thread running on: an attempt that has been
\* started returns (the transport answers), and the steps of the operation
\* that need no answer are taken.
SpecFair ==
    /\ Init
    /\ [][Next]_vars
    /\ WF_vars(Prepare) /\ WF_vars(SignStep) /\ WF_vars(Attempt) /\ WF_vars(Finish)

(***************************************************************************)
(* imds.rs: Imds::get called by several threads on one Imds value.  The    *)
(* token cell is a once_cell::sync::OnceCell: get_or_try_init returns the  *)
(* value if there is one; otherwise one thread at a time runs its closure  *)
(* (the cell is RUNNING and the others wait); a closure that succeeds      *)
(* completes the cell, one that fails leaves it INCOMPLETE and wakes the   *)
(* waiters, each of which then tries with its own closure.                 *)
(***************************************************************************)
\* The token the k-th PUT of a run returns: the service issues a fresh token
\* for every request.
TokenOf(k) == "token" \o ToString(k)

\* A variant of the cell without the wait: a thread that finds the cell without
\* a value runs its closure even while another thread is running its own (a
\* get() followed by a set()).
CellEnterWithoutWaiting(c) ==
    IF c.state = "COMPLETE" THEN "have" ELSE "run"

\* A variant of the cell that does not keep its value: a thread that finds no
\* initializer running runs its closure, whether the cell has a value or not.
CellEnterIgnoringValue(c) ==
    IF c.state = "RUNNING" THEN "wait" ELSE "run"

\* get_or_try_init, its first step on cell c: the value if the cell is
\* COMPLETE ("have"), the right to run the closure if it is INCOMPLETE ("run"),
\* and otherwise nothing until the running initializer is done ("wait").
CellEnter(c) ==
    CASE c.state = "COMPLETE" -> "have"
      [] c.state = "INCOMPLETE" -> "run"
      [] c.state = "RUNNING" -> "wait"

\* A variant of the cell that is completed by a closure that failed, with an
\* empty token.
CellLeaveCachingFailure(c, ok, token) ==
    [state |-> "COMPLETE", value |-> IF ok THEN token ELSE ""]

\* The cell after the closure returned: Ok(token) or an error.
CellLeave(c, ok, token) ==
    IF ok THEN [state |-> "COMPLETE", value |-> token]
          ELSE [state |-> "INCOMPLETE", value |-> ""]

\* Thread t enters Imds::get and get_or_try_init.
GetEnter(t) ==
    /\ tpc[t] = "idle"
    /\ tcalls[t] < MaxGets
    /\ tcalls' = [tcalls EXCEPT ![t] = @ + 1]
    /\ tresult' = [tresult EXCEPT ![t] = "none"]
    /\ tpc' = [tpc EXCEPT ![t] = "init"]
    /\ UNCHANGED <<cell, ttoken, puts, gets>>
    /\ UNCHANGED offImds

\* get_or_try_init on the cell: the thread takes the value, or becomes the
\* initializer and issues the token PUT; while another thread initializes, it
\* waits.
GetOrTryInit(t) ==
    /\ tpc[t] = "init"
    /\ CellEnter(cell) # "wait"
    /\ IF CellEnter(cell) = "have"
         THEN /\ ttoken' = [ttoken EXCEPT ![t] = cell.value]
              /\ tpc' = [tpc EXCEPT ![t] = "get"]
              /\ UNCHANGED <<cell, puts>>
         ELSE /\ cell' = [cell EXCEPT !.state = "RUNNING"]
              /\ puts' = Append(puts, [by |-> t, status |-> "inflight"])
              /\ tpc' = [tpc EXCEPT ![t] = "fetching"]
              /\ UNCHANGED ttoken
    /\ UNCHANGED <<tcalls, gets, tresult>>
    /\ UNCHANGED offImds

\* The index in puts of the PUT thread t has in flight.
InFlight(t) == CHOOSE k \in 1..Len(puts) : puts[k].by = t /\ puts[k].status = "inflight"

\* The closure of thread t returns: the PUT and into_string() succeeded (ok),
\* or one of them failed and get returns the io::Error.
TokenFetched(t, ok) ==
    /\ tpc[t] = "fetching"
    /\ LET k == InFlight(t)
       IN /\ puts' = [puts EXCEPT ![k].status = IF ok THEN "ok" ELSE "failed"]
          /\ cell' = CellLeave(cell, ok, TokenOf(k))
          /\ IF ok
               THEN /\ ttoken' = [ttoken EXCEPT ![t] = TokenOf(k)]
                    /\ tpc' = [tpc EXCEPT ![t] = "get"]
                    /\ UNCHANGED tresult
               ELSE /\ tresult' = [tresult EXCEPT ![t] = "Io"]
                    /\ tpc' = [tpc EXCEPT ![t] = "idle"]
                    /\ UNCHANGED ttoken
    /\ UNCHANGED <<tcalls, gets>>
    /\ UNCHANGED offImds

\* The metadata GET of thread t, with the token it holds, and its outcome.
MetadataGet(t, ok) ==
    /\ tpc[t] = "get"
    /\ gets' = Append(gets, [by |-> t, token |-> ttoken[t]])
    /\ tresult' = [tresult EXCEPT ![t] = IF ok THEN "Ok" ELSE "Request"]
    /\ tpc' = [tpc EXCEPT ![t] = "idle"]
    /\ UNCHANGED <<cell, tcalls, ttoken, puts>>
    /\ UNCHANGED offImds

ImdsNext ==
    \/ \E t \in Callers : GetEnter(t)
    \/ \E t \in Callers : GetOrTryInit(t)
    \/ \E t \in Callers : \E ok \in BOOLEAN : TokenFetched(t, ok)
    \/ \E t \in Callers : \E ok \in BOOLEAN : MetadataGet(t, ok)

SpecImds == Init /\ [][ImdsNext]_vars

(***************************************************************************)
(* Two operations running at once on one Api value (&self is shared, every *)
(* local of send() is the thread's own).  The steps are those of Spec, the *)
(* public method up to the loop taken as one step.                         *)
(***************************************************************************)
\* One operation of each service, and the answers of the transport that
\* deserialize: success, a transport error, a 500.
PairOps == {"attach_volume", "get_object", "get_secret_value", "get_parameter"}

PairOutcomes(n) == { out \in Outcomes(n) : out.kind = "Transport" \/ (out.parses /\ out.status # 404) }

\* The Err(e) of the failed attempts among the answers outs.
FailuresOf(outs) ==
    LET failed == SelectSeq(outs, LAMBDA out : out.kind # "Ok")
    IN [i \in 1..Len(failed) |-> FromUreqError(failed[i])]

\* Thread c enters operation o: the draft request, the body, sign_request.
PStart(c, o, in) ==
    /\ calls[c].pc = "idle"
    /\ \E sok, gok \in BOOLEAN :
         LET d == Draft(o, in, api.region)
             b == SerializeBody(sok, o, in)
             s == SignOutcome(gok, d, b.val, api.credentials, api.region,
                              ServiceOf(o), clock)
         IN calls' = [calls EXCEPT ![c] =
                        IF ~b.ok
                          THEN [@ EXCEPT !.pc = "returned", !.op = o,
                                         !.sendResult = Some(b)]
                          ELSE IF ~s.ok
                                 THEN [@ EXCEPT !.pc = "returned", !.op = o,
                                                !.body = b.val,
                                                !.sendResult = Some(s)]
                                 ELSE [@ EXCEPT !.pc = "loop", !.op = o,
                                                !.body = b.val,
                                                !.req = Some(s.val)]]
    /\ UNCHANGED offPair

\* One iteration of the loop of thread c, the counter read as r.
PAttemptWith(c, r) ==
    /\ calls[c].pc = "loop"
    /\ \E out \in PairOutcomes(Len(calls[c].sent) + 1) :
         LET me == calls[c]
             service == ServiceOf(me.op)
             step == LoopStep(service, r, FailuresOf(Append(me.outs, out)), out)
         IN calls' = [calls EXCEPT ![c] =
                        [@ EXCEPT !.sent = Append(@, Wire(service, me.req[1], me.body)),
                                  !.outs = Append(@, out),
                                  !.retries = step.retries,
                                  !.sleeps = IF step.sleep # None
                                               THEN Append(@, [after |-> Len(me.sent) + 1,
                                                               ms |-> step.sleep[1]])
                                               ELSE @,
                                  !.sendResult = step.return,
                                  !.pc = IF step.return # None THEN "returned" ELSE "loop"]]
    /\ UNCHANGED offPair

\* A variant of the loop with one counter for all the threads of an Api value.
PAttemptSharedCounter(c) ==
    PAttemptWith(c, CHOOSE r \in { calls[d].retries : d \in Calls } :
                      \A d \in Calls : calls[d].retries <= r)

PAttempt(c) == PAttemptWith(c, calls[c].retries)

\* The public operation of thread c matches on what send() returned.
PFinish(c) ==
    /\ calls[c].pc = "returned"
    /\ calls' = [calls EXCEPT ![c] =
                   [@ EXCEPT !.result = Some(MapResult(calls[c].op,
                                                        calls[c].sendResult[1])),
                             !.pc = "done"]]
    /\ UNCHANGED offPair

PairNext ==
    \/ \E c \in Calls : \E o \in PairOps : \E in \in Inputs(o) : PStart(c, o, in)
    \/ \E c \in Calls : PAttempt(c)
    \/ \E c \in Calls : PFinish(c)

SpecPair == Init /\ [][PairNext]_vars

(***************************************************************************)
(* imds.rs: Credentials::from_map, applied to the maps the credentials     *)
(* document of the metadata service can deserialize into.                  *)
(***************************************************************************)
\* The keys of the document, and the values each may carry.
MapKeys == {"AccessKeyId", "SecretAccessKey", "Token", "Expiration", "Code"}

MapValues(k) ==
    CASE k = "AccessKeyId" -> {"ASIAKEY", ""}
      [] k = "SecretAccessKey" -> {"secret"}
      [] k = "Token" -> {"tok"}
      [] k = "Expiration" -> {"2030-01-01T00:00:00Z", "2030-01-01T01:00:00+01:00",
                              "2030-01-01", "tomorrow"}
      [] k = "Code" -> {"Success"}

Maps ==
    UNION { { m \in [S -> UNION { MapValues(k) : k \in MapKeys }] :
                \A k \in S : m[k] \in MapValues(k) } : S \in SUBSET MapKeys }

\* chrono::DateTime::parse_from_rfc3339 followed by SystemTime::from, on the
\* strings above: the instant in seconds since the epoch, whatever the offset
\* it is written with, or a parse error.
ParseRfc3339(e) ==
    CASE e = "2030-01-01T00:00:00Z" -> Ok(1893456000)
      [] e = "2030-01-01T01:00:00+01:00" -> Ok(1893456000)
      [] OTHER -> Err("ParseError")

\* Error::Io(io::Error::new(kind, message)).
IoError(kind, message) == [kind |-> "Io", message |-> message, io |-> kind]

\* Credentials::new(access_key_id, secret_access_key, session_token,
\* expires_after, provider_name).
CredentialsNew(access_key_id, secret_access_key, session_token, expires_after, provider_name) ==
    [access_key_id |-> access_key_id, secret_access_key |-> secret_access_key,
     session_token |-> session_token, expires_after |-> expires_after,
     provider_name |-> provider_name]

\* map.get(k): Some(&value) or None.
MapGet(m, k) == IF k \in DOMAIN m THEN Some(m[k]) ELSE None

\* A variant of from_map with unwrap_or_default() in the place of
\* ok_or_else(..)?: a missing key becomes the empty string.
from_mapDefaultingKeys(m) ==
    LET access_key_id == IF MapGet(m, "AccessKeyId") = None THEN "" ELSE m["AccessKeyId"]
        secret_access_key == IF MapGet(m, "SecretAccessKey") = None THEN ""
                             ELSE m["SecretAccessKey"]
        session_token == MapGet(m, "Token")
        expiration_str == MapGet(m, "Expiration")
        parsed == ParseRfc3339(expiration_str[1])
    IN IF expiration_str # None /\ ~parsed.ok
         THEN Err(IoError("InvalidInput", "Unable to parse expiration"))
         ELSE Ok(CredentialsNew(access_key_id, secret_access_key, session_token,
                                IF expiration_str # None THEN Some(parsed.val) ELSE None,
                                "imds"))

\* A variant of from_map that takes the token as it takes the keys: a map
\* without Token is an error.
from_mapRequiringToken(m) ==
    LET access_key_id == MapGet(m, "AccessKeyId")
        secret_access_key == MapGet(m, "SecretAccessKey")
        session_token == MapGet(m, "Token")
        expiration_str == MapGet(m, "Expiration")
        parsed == ParseRfc3339(expiration_str[1])
    IN IF access_key_id = None
         THEN Err(IoError("NotFound", "AccessKeyId not found"))
       ELSE IF secret_access_key = None
         THEN Err(IoError("NotFound", "SecretAccessKey not found"))
       ELSE IF session_token = None
         THEN Err(IoError("NotFound", "Token not found"))
       ELSE IF expiration_str # None /\ ~parsed.ok
         THEN Err(IoError("InvalidInput", "Unable to parse expiration"))
       ELSE Ok(CredentialsNew(access_key_id[1], secret_access_key[1], session_token,
                              IF expiration_str # None THEN Some(parsed.val) ELSE None,
                              "imds"))

\* A variant of from_map with .ok() in the place of .map_err(..)?: an
\* Expiration that does not parse gives credentials without an expiry.
from_mapDroppingBadExpiration(m) ==
    LET access_key_id == MapGet(m, "AccessKeyId")
        secret_access_key == MapGet(m, "SecretAccessKey")
        session_token == MapGet(m, "Token")
        expiration_str == MapGet(m, "Expiration")
        parsed == ParseRfc3339(expiration_str[1])
    IN IF access_key_id = None
         THEN Err(IoError("NotFound", "AccessKeyId not found"))
       ELSE IF secret_access_key = None
         THEN Err(IoError("NotFound", "SecretAccessKey not found"))
       ELSE Ok(CredentialsNew(access_key_id[1], secret_access_key[1], session_token,
                              IF expiration_str # None /\ parsed.ok
                                THEN Some(parsed.val) ELSE None,
                              "imds"))

\* CredentialsExt::from_map.
from_map(m) ==
    LET access_key_id == MapGet(m, "AccessKeyId")
        secret_access_key == MapGet(m, "SecretAccessKey")
        session_token == MapGet(m, "Token")
        expiration_str == MapGet(m, "Expiration")
        parsed == ParseRfc3339(expiration_str[1])
    IN IF access_key_id = None
         THEN Err(IoError("NotFound", "AccessKeyId not found"))
       ELSE IF secret_access_key = None
         THEN Err(IoError("NotFound", "SecretAccessKey not found"))
       ELSE IF expiration_str # None /\ ~parsed.ok
         THEN Err(IoError("InvalidInput", "Unable to parse expiration"))
       ELSE Ok(CredentialsNew(access_key_id[1], secret_access_key[1], session_token,
                              IF expiration_str # None THEN Some(parsed.val) ELSE None,
                              "imds"))

\* Credentials::from_map is called with the map m and returns.
FromMap(m) ==
    /\ map = None
    /\ map' = Some(m)
    /\ fromMapResult' = Some(from_map(m))
    /\ UNCHANGED offMap

FromMapNext == \E m \in Maps : FromMap(m)

SpecFromMap == Init /\ [][FromMapNext]_vars

(***************************************************************************)
(* imds.rs: Imds::get_credentials, called by one thread, time after time,  *)
(* on one Imds value: get_metadata(role_path), get_metadata(role_path/role)*)
(* (each is Imds::get, i.e. get_or_try_init on the token cell and then the *)
(* GET, and into_string on the response), serde_json::from_str, from_map.  *)
(***************************************************************************)
TokenPath == "latest/api/token"
RolePath == "latest/meta-data/" \o "iam/security-credentials/"
CredentialsPath(r) == RolePath \o r

\* What the credentials document deserializes into: a map, or nothing when it
\* is not a JSON object of strings.
Documents == {None} \cup { Some(m) : m \in Maps }

\* Error::Request and Error::SerdeJson of imds.rs.
ImdsError(kind) == [kind |-> kind, message |-> "", io |-> ""]

\* get_credentials is entered.
CredsEnter ==
    /\ cpc = "idle"
    /\ invocations < MaxInvocations
    /\ invocations' = invocations + 1
    /\ cpc' = "role"
    /\ http' = <<>>
    /\ role' = None
    /\ document' = None
    /\ credsResult' = None
    /\ UNCHANGED <<cell, offCreds>>

\* Imds::get, its first half: get_or_try_init on the token cell.  The thread
\* takes the value, or runs the closure: the PUT, whose failure (or that of
\* into_string) get returns with `?`.
CredsToken ==
    /\ cpc \in {"role", "creds"}
    /\ IF CellEnter(cell) = "have"
         THEN /\ cpc' = cpc \o ".get"
              /\ UNCHANGED <<cell, http, credsResult>>
         ELSE /\ http' = Append(http, [method |-> "PUT", path |-> TokenPath, token |-> ""])
              /\ \E ok \in BOOLEAN :
                   /\ cell' = CellLeave(cell, ok, TokenOf(invocations))
                   /\ IF ok
                        THEN cpc' = cpc \o ".get" /\ UNCHANGED credsResult
                        ELSE /\ credsResult' = Some(Err(IoError("Other", "token")))
                             /\ cpc' = "idle"
    /\ UNCHANGED <<invocations, role, document, offCreds>>

\* Imds::get, its second half, and what get_metadata does with the response:
\* the GET with the token; a failed call is Error::Request, a body that
\* cannot be read Error::Io, both returned with `?`.  again says whether a
\* failed call is issued once more.
CredsGetUsing(again) ==
    /\ cpc \in {"role.get", "creds.get"}
    /\ LET path == IF cpc = "role.get" THEN RolePath ELSE CredentialsPath(role[1])
           call == [method |-> "GET", path |-> path, token |-> cell.value]
       IN /\ http' = Append(http, call)
          /\ \E out \in {"ok", "request", "io"} :
               CASE out = "request" ->
                      IF again /\ (http = <<>> \/ http[Len(http)] # call)
                        THEN UNCHANGED <<cpc, role, document, credsResult>>
                        ELSE /\ credsResult' = Some(Err(ImdsError("Request")))
                             /\ cpc' = "idle"
                             /\ UNCHANGED <<role, document>>
                 [] out = "io" ->
                      /\ credsResult' = Some(Err(IoError("Other", "body")))
                      /\ cpc' = "idle"
                      /\ UNCHANGED <<role, document>>
                 [] out = "ok" /\ cpc = "role.get" ->
                      /\ role' = Some("role-a")
                      /\ cpc' = "creds"
                      /\ UNCHANGED <<document, credsResult>>
                 [] out = "ok" /\ cpc = "creds.get" ->
                      /\ \E doc \in Documents : document' = Some(doc)
                      /\ cpc' = "parse"
                      /\ UNCHANGED <<role, credsResult>>
    /\ UNCHANGED <<cell, invocations, offCreds>>

\* A variant of the lookups that tries a failed call a second time.
CredsGetRetrying == CredsGetUsing(TRUE)

CredsGet == CredsGetUsing(FALSE)

\* serde_json::from_str(&credentials_str)? and Credentials::from_map(map).
CredsParse ==
    /\ cpc = "parse"
    /\ credsResult' = Some(IF document[1] = None THEN Err(ImdsError("SerdeJson"))
                                                 ELSE from_map(document[1][1]))
    /\ cpc' = "idle"
    /\ UNCHANGED <<cell, invocations, http, role, document, offCreds>>

CredsNext ==
    \/ CredsEnter
    \/ CredsToken
    \/ CredsGet
    \/ CredsParse

SpecCreds == Init /\ [][CredsNext]_vars

(***************************************************************************)
(* ec2.rs: describe_volumes building its parameter list, on inputs with    *)
(* every optional field absent or present, the vectors empty or not.       *)
(***************************************************************************)
\* The sequences over S of length n at most.
SeqsUpTo(S, n) == UNION { [1..k -> S] : k \in 0..n }

\* The values a DescribeVolumesInput is given.
FilterSet ==
    { [name |-> n, values |-> vs] :
        n \in {"status", "size"}, vs \in SeqsUpTo({"in-use", "available"}, MaxValues) }

DescribeVolumesInputs ==
    { [filters |-> f, max_results |-> m, next_token |-> t, volume_ids |-> v] :
        f \in {None} \cup { Some(fs) : fs \in SeqsUpTo(FilterSet, MaxFilters) },
        m \in {None, Some(5)},
        t \in {None, Some("nt")},
        v \in {None} \cup { Some(ids) : ids \in SeqsUpTo({"vol-1", "vol-2"}, MaxVolumeIds) } }

\* describe_volumes is called with the input in and builds `params`.
DescribeVolumes(in) ==
    /\ dvInput = None
    /\ dvInput' = Some(in)
    /\ dvParams' = Some(DescribeVolumesParams(in))
    /\ UNCHANGED offParams

ParamsNext == \E in \in DescribeVolumesInputs : DescribeVolumes(in)

SpecParams == Init /\ [][ParamsNext]_vars

(***************************************************************************)
(* request.rs: sign_request and update_request applied to arguments of     *)
(* every kind, the service name drawn apart from the request it signs.     *)
(***************************************************************************)
\* The service names sign_request is given: those of the four callers and two
\* that are none of them.
SignServices == Services \cup {"S3", "sts"}

SignRegions == Regions \cup {"eu-west-1"}

SignPayloads == {"", "{}", "Action=DescribeVolumes"}

\* The draft requests of the public operations.
SignDrafts ==
    UNION { UNION { { Draft(o, in, region) : in \in Inputs(o) } : o \in Ops } :
              region \in SignRegions }

\* A request that carries query parameters and, already, an authorization
\* header.
StaleRequest ==
    SetHeader(AddQuery(AddQuery(NewRequest("GET", S3Url("us-east-1", "b") \o "/"),
                                "list-type", "2"), "prefix", "p"),
              "authorization", "stale")

\* Signing instructions as aws_sigv4 makes them: the signature in headers, or
\* in query parameters (SignatureLocation::QueryParams).
UpdateInstructions ==
    { [headers |-> hs, params |-> ps] :
        hs \in { <<>>,
                 << <<"x-amz-date", "0">>, <<"authorization", "AWS4-HMAC-SHA256 sig">> >>,
                 << <<"x-amz-date", "0">>, <<"x-amz-security-token", "tok">>,
                    <<"authorization", "AWS4-HMAC-SHA256 sig">> >> },
        ps \in { <<>>,
                 << <<"X-Amz-Signature", "sig">> >>,
                 << <<"X-Amz-Date", "0">>, <<"X-Amz-Signature", "sig">> >> } }

\* sign_request is called and returns; ok says whether SignableRequest::new
\* and sign succeed, and only then is update_request called.
SignRequest(request, bytes, identity, region, service) ==
    /\ signArgs = None /\ updateArgs = None
    /\ signArgs' = Some([request |-> request, bytes |-> bytes, identity |-> identity,
                         region |-> region, service |-> service, time |-> clock])
    /\ signing_settings' = Some(PayloadChecksumKind(service))
    /\ \E ok \in BOOLEAN :
         /\ signOut' = Some(SignOutcome(ok, request, bytes, identity, region, service, clock))
         /\ IF ok
              THEN LET instructions == SigningInstructions(request, bytes, identity,
                                                           region, service, clock)
                   IN /\ updateArgs' = Some([request |-> request,
                                             instructions |-> instructions])
                      /\ updateOut' = Some(update_request(request, instructions))
              ELSE UNCHANGED <<updateArgs, updateOut>>
    /\ UNCHANGED <<sendVars, offSign>>

\* update_request is called on its own and returns.
UpdateRequest(request, instructions) ==
    /\ signArgs = None /\ updateArgs = None
    /\ updateArgs' = Some([request |-> request, instructions |-> instructions])
    /\ updateOut' = Some(update_request(request, instructions))
    /\ UNCHANGED <<signArgs, signing_settings, signOut>>
    /\ UNCHANGED <<sendVars, offSign>>

SignNext ==
    \/ Tick
    \/ \E request \in SignDrafts : \E bytes \in SignPayloads :
         \E identity \in CredentialsSet : \E region \in SignRegions :
           \E service \in SignServices :
             SignRequest(request, bytes, identity, region, service)
    \/ \E request \in SignDrafts \cup {StaleRequest} :
         \E instructions \in UpdateInstructions : UpdateRequest(request, instructions)

SpecSign == Init /\ [][SignNext]_vars

(***************************************************************************)
(* Properties of the send pipeline (specification Spec).                   *)
(***************************************************************************)
\* send() has returned.
Returned == sendResult # None

\* send() has returned the error of a failed attempt: the loop ran out of
\* retries with every attempt failed.
Exhausted == Returned /\ ~sendResult[1].ok /\ sendResult[1].val.kind \in {"Api", "Transport"}

\* send() has returned the response of a successful attempt.
Succeeded == Returned /\ sendResult[1].ok

\* C1, as stated: when every attempt fails, the request is transmitted exactly
\* as many times as the configured limit (3) before send returns the error.
C1_TransmissionsEqualLimit ==
    Exhausted => Len(sent) = RetryLimit(ServiceOf(op))

\* C1, amended: the configured limit (3) bounds the retries, not the attempts:
\* when every attempt fails, the request is transmitted exactly limit + 1 (4)
\* times before send returns the error, and all of them failed.
C1_TransmissionsEqualLimitPlusOne ==
    Exhausted =>
        /\ Len(sent) = RetryLimit(ServiceOf(op)) + 1
        /\ Len(failures) = Len(sent)
        /\ retries = RetryLimit(ServiceOf(op))

C1_Witness ==
    /\ Exhausted
    /\ pc = "done"
    /\ Len(sent) = 4
    /\ ServiceOf(op) = "s3"

\* C2: when the retries are exhausted, the error send returns is the failure
\* of the last attempt made, not the first or an intermediate one.
C2_ReturnsLastFailure ==
    Exhausted =>
        /\ sendResult[1].val = failures[Len(failures)]
        /\ sendResult[1].val.attempt = Len(sent)
        /\ \A i \in 1..(Len(failures) - 1) : sendResult[1].val # failures[i]

C2_Witness ==
    /\ Exhausted
    /\ failures[1].kind = "Transport"
    /\ failures[2].kind = "Api" /\ failures[2].status = 404
    /\ sendResult[1].val.kind = "Api" /\ sendResult[1].val.status = 500

\* C3: if attempt k is the first to succeed, send returns that response after
\* exactly k transmissions, the k - 1 before it having failed; nothing is sent
\* and nothing is slept after the successful attempt, and a success on the
\* first attempt involves no sleep at all.
C3_StopsAtFirstSuccess ==
    Succeeded =>
        LET k == sendResult[1].val.attempt
        IN /\ Len(sent) = k
           /\ Len(failures) = k - 1
           /\ k <= RetryLimit(ServiceOf(op)) + 1
           /\ \A i \in 1..Len(sleeps) : sleeps[i].after < k
           /\ (k = 1 => sleeps = <<>>)

C3_Witness ==
    /\ Succeeded
    /\ pc = "done"
    /\ sendResult[1].val.attempt = 3
    /\ Len(sleeps) = 1

\* The last call of sign_request failed.
SigningFailed == signCalls # <<>> /\ ~signCalls[Len(signCalls)].ok

\* The request sign_request returns for this operation when called at time t.
SignedAt(t) ==
    sign_request(draft[1], body, api.credentials, api.region, ServiceOf(op), t)

\* C4: a signing failure is terminal and never retried: the operation returns
\* the Request(SigningError) error, distinct from every other error, with no
\* transmission, no sleep and no second signing; and every request transmitted
\* is the output of a successful sign_request, never the unsigned draft.
C4_SigningFailureTerminal ==
    /\ SigningFailed =>
         /\ Len(signCalls) = 1
         /\ sent = <<>> /\ sleeps = <<>> /\ failures = <<>>
         /\ pc \in {"returned", "done"}
         /\ sendResult = Some(Err(SigningError))
         /\ (pc = "done" => result = Some(Err(SigningError)))
    /\ (pc = "done" /\ result[1].val.kind = "Request") => SigningFailed
    /\ \A i \in 1..Len(sent) :
         /\ \E j \in 1..Len(signCalls) :
              signCalls[j].ok /\ sent[i].request = SignedAt(signCalls[j].time)
         /\ "authorization" \in DOMAIN sent[i].request.headers
         /\ sent[i].request # draft[1]

C4_Witness ==
    /\ pc = "done"
    /\ SigningFailed
    /\ result[1].val.kind = "Request"
    /\ sent = <<>>

\* C5: within one operation the Signer runs exactly once, reading the clock
\* once, before the first attempt, and every attempt transmits the same signed
\* request: method, URL, query, headers (authorization included) and payload
\* are those of attempt 1 on every retry, whatever the time of the retry.
C5_SignedOnceSameRequest ==
    /\ Len(signCalls) <= 1
    /\ sent # <<>> =>
         /\ Len(signCalls) = 1 /\ signCalls[1].ok
         /\ \A i \in 1..Len(sent) :
              /\ sent[i] = sent[1]
              /\ sent[i].request = SignedAt(signCalls[1].time)
              /\ sent[i].request.headers["x-amz-date"] = ToString(signCalls[1].time)

C5_Witness ==
    /\ Len(sent) = 3
    /\ clock > signCalls[1].time
    /\ SignedAt(clock) # SignedAt(signCalls[1].time)

\* The sleeps a send loop has made when n attempts have failed and the loop has
\* not stopped, each given as the delay in ms per unit of (attempts so far - d).
SleepsAfter(n, unit, d) ==
    [i \in 1..(IF n > 1 THEN n - 1 ELSE 0) |->
        [after |-> i + 1, ms |-> (i + 1 - d) * unit]]

\* The failed attempts after which the loop went on to a retry.
RetriedFailures == IF Exhausted THEN Len(failures) - 1 ELSE Len(failures)

\* C6, as stated: the delay before a retry is attemptsSoFar * 10 ms, the
\* attempts being those made so far, except that nothing is slept before the
\* first retry.
C6_BackoffLinearInAttempts ==
    sleeps = SleepsAfter(RetriedFailures, BackoffUnit(ServiceOf(op)), 0)

\* C6, amended: the delay before a retry is linear in the retries made so far,
\* that is (attemptsSoFar - 1) * 10 ms: nothing before the first retry, 10 ms
\* before the second, 20 ms before the third; there is no other sleep, so no
\* delay grows exponentially, carries jitter or exceeds attemptsSoFar * 10 ms.
C6_BackoffLinearInRetries ==
    /\ sleeps = SleepsAfter(RetriedFailures, BackoffUnit(ServiceOf(op)), 1)
    /\ \A i \in 1..Len(sleeps) :
         /\ sleeps[i].ms = (sleeps[i].after - 1) * 10
         /\ sleeps[i].ms <= sleeps[i].after * 10

C6_Witness ==
    /\ Exhausted
    /\ sleeps = << [after |-> 2, ms |-> 10], [after |-> 3, ms |-> 20] >>

\* C7: the retry decision does not depend on the kind of failure: a transport
\* failure and a status failure of any code (404 as well as 500) are retried
\* alike, so the loop stops on a failure only when the retries are exhausted,
\* and the attempts made and the sleeps taken are determined by the number of
\* failures alone.
C7_RetryIgnoresFailureKind ==
    LET n == Len(failures)
        limit == RetryLimit(ServiceOf(op))
    IN /\ (pc = "loop" /\ req # None) => (Len(sent) = n /\ retries = n /\ n <= limit)
       /\ (Returned /\ ~sendResult[1].ok /\ n > 0) => n = limit + 1
       /\ (n > 0 /\ Len(sent) = n /\ n <= limit) => pc = "loop"
       /\ Len(sleeps) = (IF RetriedFailures > 1 THEN RetriedFailures - 1 ELSE 0)
       /\ \A i \in 1..Len(sleeps) : sleeps[i] = [after |-> i + 1, ms |-> i * 10]

C7_Witness ==
    /\ pc = "loop"
    /\ Len(failures) = 3
    /\ failures[1].kind = "Api" /\ failures[1].status = 404
    /\ failures[2].kind = "Transport"
    /\ failures[3].kind = "Api" /\ failures[3].status = 500
    /\ Len(sleeps) = 2

\* The error kinds the claim names for each public operation: the domain error
\* and the deserialization error.
DomainKindOfOp ==
    [o \in Ops |->
        CASE o \in {"attach_volume", "describe_volumes"} -> "EC2"
          [] o \in {"list_objects_v2", "get_object"} -> "S3"
          [] o = "get_secret_value" -> "SecretsManager"
          [] o \in {"get_parameter", "get_parameters_by_path"} -> "SSM"]

DecodeKindOfOp ==
    [o \in Ops |->
        IF o \in {"attach_volume", "describe_volumes", "list_objects_v2", "get_object"}
          THEN "Xml" ELSE "Json"]

\* C8: in every public operation, when send ends in a status failure the
\* response body is decoded into the service's error shape and returned as the
\* domain error (EC2, S3, SecretsManager, SSM); if that decoding fails, the
\* deserialization error (Xml or Json) is returned instead; the raw Api variant
\* is never returned, and a transport failure is returned unchanged.
C8_TwoLevelErrorMapping ==
    pc = "done" =>
        LET sr == sendResult[1]
            r == result[1]
        IN /\ r.val.kind # "Api"
           /\ (~sr.ok /\ sr.val.kind = "Api" /\ sr.val.parses) =>
                (~r.ok /\ r.val.kind = DomainKindOfOp[op]
                       /\ r.val.attempt = sr.val.attempt /\ r.val.status = sr.val.status)
           /\ (~sr.ok /\ sr.val.kind = "Api" /\ ~sr.val.parses) =>
                (~r.ok /\ r.val.kind = DecodeKindOfOp[op] /\ r.val.attempt = sr.val.attempt)
           /\ (~sr.ok /\ sr.val.kind = "Transport") => r = sr
           /\ (~r.ok /\ r.val.kind = DomainKindOfOp[op]) =>
                (~sr.ok /\ sr.val.kind = "Api" /\ sr.val.parses)

C8_Witness ==
    /\ pc = "done"
    /\ op = "get_parameters_by_path"
    /\ sendResult[1].val.kind = "Api" /\ ~sendResult[1].val.parses
    /\ result[1].val.kind = "Json"

\* C9: retries apply to transport and status failures only: when the request
\* body fails to serialize, nothing is signed and nothing is transmitted; and
\* once send has returned, whether its response or error body deserializes or
\* not, the request is never transmitted again and nothing more is slept.
C9_NoRetryAroundSerialization ==
    /\ [](  /\ (Returned /\ sendResult[1] = Err(JsonError)) =>
                 (signCalls = <<>> /\ sent = <<>> /\ sleeps = <<>>)
            /\ (pc = "done" /\ ~result[1].ok /\ result[1].val.kind \in {"Xml", "Json"}
                            /\ result[1].val.attempt > 0) =>
                 Len(sent) = result[1].val.attempt  )
    /\ [][ Returned => (sent' = sent /\ sleeps' = sleeps /\ signCalls' = signCalls) ]_vars

C9_Witness ==
    /\ pc = "done"
    /\ ServiceOf(op) = "secretsmanager"
    /\ result[1] = Err(JsonError)
    /\ signCalls = <<>> /\ sent = <<>>

C9_WitnessDecode ==
    /\ pc = "done"
    /\ op = "list_objects_v2"
    /\ result[1].val.kind = "Xml"
    /\ sendResult[1].ok
    /\ Len(sent) = 2

(***************************************************************************)
(* Properties of the instance-metadata client (specification SpecImds).    *)
(***************************************************************************)
PutsWith(status) == { k \in 1..Len(puts) : puts[k].status = status }

\* Every caller is in, or has finished, its first call of get.
FirstAccesses == \A t \in Callers : tcalls[t] <= 1

\* C10, as stated: with several callers racing on their first access, the
\* token-fetch PUT happens at most once.
C10_AtMostOnePut ==
    FirstAccesses => Len(puts) <= 1

\* C10, amended: the callers of get coordinate on the cell: at most one
\* token-fetch PUT is in flight at any time, at most one PUT ever succeeds and
\* none is issued after it, and every metadata GET carries the token obtained
\* by that one successful fetch; a PUT that fails leaves the cell empty, and
\* the next caller (a racing one included) issues a PUT of its own.
C10_OneFetchAtATime ==
    /\ Cardinality(PutsWith("inflight")) <= 1
    /\ Cardinality(PutsWith("ok")) <= 1
    /\ \A k \in PutsWith("ok") : k = Len(puts) /\ cell = [state |-> "COMPLETE", value |-> TokenOf(k)]
    /\ \A k \in PutsWith("inflight") : k = Len(puts) /\ cell.state = "RUNNING"
    /\ \A k \in 1..(Len(puts) - 1) : puts[k].status = "failed"
    /\ \A i \in 1..Len(gets) :
         \E k \in PutsWith("ok") : gets[i].token = TokenOf(k)

C10_Witness ==
    /\ FirstAccesses
    /\ Len(puts) = 2
    /\ puts[1].status = "failed" /\ puts[2].status = "ok"
    /\ puts[1].by # puts[2].by
    /\ \E i \in 1..Len(gets) : gets[i].by = puts[2].by /\ gets[i].token = TokenOf(2)

\* C11: the token cell is written once: once it holds a value, no later call
\* of get overwrites it, clears it or fetches a token again, and every later
\* metadata GET carries that value.
C11_TokenWrittenOnce ==
    [][ cell.state = "COMPLETE" =>
          /\ cell' = cell
          /\ puts' = puts
          /\ gets' # gets => (/\ Len(gets') = Len(gets) + 1
                              /\ gets'[Len(gets')].token = cell.value) ]_vars

C11_Witness ==
    /\ cell = [state |-> "COMPLETE", value |-> TokenOf(1)]
    /\ Len(puts) = 1
    /\ \A t \in Callers : tcalls[t] = 2 /\ tpc[t] = "idle"
    /\ Len(gets) = 2 * NumCallers
    /\ \A i \in 1..Len(gets) : gets[i].token = TokenOf(1)

\* C12: the send loop is the state machine Attempting(n) -> Success |
\* Attempting(n + 1) (only if n < max) | Failed (only if n = max), Attempting(n)
\* being the loop about to transmit with its counter at n, and max the limit
\* of the counter (3): Success and Failed are terminal, the
\* counter grows by exactly one per failure, never beyond max, and, every
\* attempt returning, each call of send ends in Success or Failed after at
\* most max + 1 attempts.
C12_SendStateMachine ==
    /\ [](pc = "loop" => (retries \in 0..RetryLimit(ServiceOf(op)) /\ Len(sent) = retries))
    /\ [](Returned => Len(sent) <= RetryLimit(ServiceOf(op)) + 1)
    /\ [][ pc = "loop" =>
             \/ pc' = "loop" /\ retries' = retries /\ sent' = sent
                             /\ failures' = failures
             \/ /\ Len(sent') = Len(sent) + 1
                /\ \/ Succeeded' /\ failures' = failures /\ retries' = retries
                   \/ /\ pc' = "loop" /\ retries' = retries + 1
                      /\ retries < RetryLimit(ServiceOf(op))
                      /\ Len(failures') = Len(failures) + 1 /\ ~Returned'
                   \/ /\ Exhausted' /\ retries = RetryLimit(ServiceOf(op))
                      /\ retries' = retries
                      /\ Len(failures') = Len(failures) + 1 ]_vars
    /\ [][ Returned => (sendResult' = sendResult /\ retries' = retries
                        /\ pc' # "loop") ]_vars
    /\ (pc = "loop" ~> Returned)

C12_Witness ==
    /\ Exhausted
    /\ retries = 3
    /\ Len(failures) = 4
    /\ pc = "done"

C12_WitnessSuccess ==
    /\ Succeeded
    /\ retries = 2
    /\ Len(failures) = 2

\* C17: the payload given to sign_request is the payload of every
\* transmission: in ec2 the form-urlencoded parameters, in secretsmanager and
\* ssm the JSON serialization of the input, in s3 the empty payload, the
\* request going out without a body.
C17_SignedPayloadIsSentPayload ==
    \A i \in 1..Len(sent) :
        /\ Len(signCalls) = 1
        /\ sent[i].payload = signCalls[1].payload
        /\ sent[i].payload =
             (CASE op = "attach_volume" -> FormUrlEncode(AttachVolumeParams(input[1]))
                [] op = "describe_volumes" -> FormUrlEncode(DescribeVolumesParams(input[1]))
                [] ServiceOf(op) \in {"secretsmanager", "ssm"} -> ToJson(op, input[1])
                [] ServiceOf(op) = "s3" -> "")

\* An ec2 call and a JSON call sent their non-empty signed payload on each of
\* four attempts; an s3 call signed and sent nothing.
C17_Witness ==
    /\ op = "describe_volumes"
    /\ Len(sent) = 4
    /\ signCalls[1].payload # ""
    /\ \A i \in 1..4 : sent[i].payload = signCalls[1].payload

C17_WitnessJson ==
    /\ op = "get_parameters_by_path"
    /\ Len(sent) = 4
    /\ signCalls[1].payload # ""
    /\ \A i \in 1..4 : sent[i].payload = signCalls[1].payload

C17_WitnessS3 ==
    /\ op = "list_objects_v2"
    /\ Len(sent) = 4
    /\ signCalls[1].payload = ""
    /\ \A i \in 1..4 : sent[i].payload = ""

(***************************************************************************)
(* Properties of sign_request and update_request (specification SpecSign). *)
(***************************************************************************)
\* sign_request has been called, and it has returned a signed request.
SignCalled == signArgs # None
Signed == SignCalled /\ signOut[1].ok

\* C16: the payload-checksum setting is decided by the service name alone:
\* whatever the request, the payload, the credentials and the region, the
\* setting is XAmzSha256 and the signed request carries x-amz-content-sha256
\* (the hash of the payload) when the service name is "s3", and the setting
\* is the default and the header is not there for every other name.
C16_ChecksumModeByServiceAlone ==
    /\ SignCalled =>
          signing_settings[1] =
             (IF signArgs[1].service = "s3" THEN "XAmzSha256" ELSE "NoHeader")
    /\ Signed =>
          /\ ("x-amz-content-sha256" \in DOMAIN signOut[1].val.headers)
                <=> (signArgs[1].service = "s3")
          /\ signArgs[1].service = "s3" =>
                signOut[1].val.headers["x-amz-content-sha256"]
                    = ContentHash(signArgs[1].bytes)

\* A POST with a payload signed for "s3" in the second region with temporary
\* credentials carries the header; the same for "S3" does not.
C16_Witness ==
    /\ Signed
    /\ signArgs[1].service = "s3"
    /\ signArgs[1].request.method = "POST"
    /\ signArgs[1].bytes = "{}"
    /\ signArgs[1].region = "eu-west-1"
    /\ signArgs[1].identity.session_token # None
    /\ "x-amz-content-sha256" \in DOMAIN signOut[1].val.headers

C16_WitnessOther ==
    /\ Signed
    /\ signArgs[1].service = "S3"
    /\ signArgs[1].request.method = "GET"
    /\ "x-amz-content-sha256" \notin DOMAIN signOut[1].val.headers

\* The header names of signing instructions.
InstructionNames(instructions) ==
    { instructions.headers[i][1] : i \in 1..Len(instructions.headers) }

C18_WitnessSigned ==
    /\ Signed
    /\ DOMAIN signArgs[1].request.headers = {"Content-Type", "X-Amz-Target"}
    /\ signArgs[1].identity.session_token # None
    /\ signArgs[1].service = "s3"
    /\ signArgs[1].time > 0
    /\ Cardinality(DOMAIN signOut[1].val.headers) = 6

(***************************************************************************)
(* Properties of operations running at once (specification SpecPair).      *)
(***************************************************************************)
\* Thread c has entered the loop of send().
Looped(c) == calls[c].req # None

\* How send() stands in thread c: still running, or the kind of what it
\* returned.
SendKind(c) ==
    IF calls[c].sendResult = None THEN "running"
    ELSE IF calls[c].sendResult[1].ok THEN "Ok"
    ELSE calls[c].sendResult[1].val.kind

\* C13: the send loops of ec2, s3, secretsmanager and ssm are one retry
\* policy: two calls, of whatever services, whose attempts were answered by
\* the same sequence of outcomes have made the same number of transmissions,
\* slept the same delays at the same points, hold the same counter, and
\* either both still run or both returned the same kind of outcome.
C13_SendLoopsEquivalent ==
    \A c, d \in Calls :
        (Looped(c) /\ Looped(d) /\ calls[c].outs = calls[d].outs) =>
            /\ Len(calls[c].sent) = Len(calls[d].sent)
            /\ calls[c].sleeps = calls[d].sleeps
            /\ calls[c].retries = calls[d].retries
            /\ SendKind(c) = SendKind(d)

\* An ec2 call and an s3 call that both failed four times the same way: four
\* transmissions each, the delays 10 and 20, the last failure returned.
C13_Witness ==
    /\ calls["a"].op = "attach_volume"
    /\ calls["b"].op = "get_object"
    /\ calls["a"].outs = calls["b"].outs
    /\ Len(calls["a"].outs) = 4
    /\ SendKind("a") = "Api" /\ SendKind("b") = "Api"
    /\ calls["b"].sleeps = << [after |-> 2, ms |-> 10], [after |-> 3, ms |-> 20] >>

\* A secretsmanager call and an ssm call answered alike: a transport error,
\* then success.
C13_WitnessJson ==
    /\ calls["a"].op = "get_secret_value"
    /\ calls["b"].op = "get_parameter"
    /\ calls["a"].outs = calls["b"].outs
    /\ Len(calls["a"].outs) = 2
    /\ SendKind("a") = "Ok" /\ SendKind("b") = "Ok"
(***************************************************************************)
(* Properties of Credentials::from_map (specification SpecFromMap).        *)
(***************************************************************************)
\* from_map has been called and has returned.
FromMapReturned == map # None /\ fromMapResult # None

\* C14: on a map without AccessKeyId, or without SecretAccessKey, from_map
\* returns (it does not panic) an Io error of kind NotFound that names the
\* first of the two keys that is missing, whatever else the map holds; it
\* returns no Credentials, so none with an empty or defaulted key.
C14_MissingKeyIsNotFound ==
    (FromMapReturned /\ ~({"AccessKeyId", "SecretAccessKey"} \subseteq DOMAIN map[1])) =>
        /\ ~fromMapResult[1].ok
        /\ fromMapResult[1].val.kind = "Io"
        /\ fromMapResult[1].val.io = "NotFound"
        /\ fromMapResult[1].val.message =
             (IF "AccessKeyId" \notin DOMAIN map[1] THEN "AccessKeyId not found"
                                                   ELSE "SecretAccessKey not found")

\* A map with everything but SecretAccessKey, and one with everything but
\* AccessKeyId whose Expiration does not parse either.
C14_Witness ==
    /\ FromMapReturned
    /\ DOMAIN map[1] = MapKeys \ {"SecretAccessKey"}
    /\ fromMapResult[1] = Err(IoError("NotFound", "SecretAccessKey not found"))

C14_WitnessAccessKeyId ==
    /\ FromMapReturned
    /\ DOMAIN map[1] = MapKeys \ {"AccessKeyId"}
    /\ map[1]["Expiration"] = "tomorrow"
    /\ fromMapResult[1] = Err(IoError("NotFound", "AccessKeyId not found"))

\* C15: on a map with AccessKeyId and SecretAccessKey whose Expiration, if
\* there is one, is RFC3339, from_map succeeds, with or without Token and
\* with or without Expiration, each on its own: the session token is Token
\* if present and none otherwise, the expiry is the instant Expiration
\* denotes if present and none otherwise, and the two keys are the map's
\* values as they are.
C15_LongTermCredentialsTolerated ==
    (/\ FromMapReturned
     /\ {"AccessKeyId", "SecretAccessKey"} \subseteq DOMAIN map[1]
     /\ ("Expiration" \in DOMAIN map[1] => ParseRfc3339(map[1]["Expiration"]).ok)) =>
        /\ fromMapResult[1].ok
        /\ fromMapResult[1].val.access_key_id = map[1]["AccessKeyId"]
        /\ fromMapResult[1].val.secret_access_key = map[1]["SecretAccessKey"]
        /\ fromMapResult[1].val.session_token =
             (IF "Token" \in DOMAIN map[1] THEN Some(map[1]["Token"]) ELSE None)
        /\ fromMapResult[1].val.expires_after =
             (IF "Expiration" \in DOMAIN map[1]
                THEN Some(ParseRfc3339(map[1]["Expiration"]).val) ELSE None)

\* Long-term credentials: the two keys and nothing else.
C15_Witness ==
    /\ FromMapReturned
    /\ DOMAIN map[1] = {"AccessKeyId", "SecretAccessKey"}
    /\ fromMapResult[1].ok
    /\ fromMapResult[1].val.session_token = None
    /\ fromMapResult[1].val.expires_after = None
    /\ fromMapResult[1].val.access_key_id = "ASIAKEY"

\* An expiry without a token, written with an offset, and a token without an
\* expiry.
C15_WitnessExpirationOnly ==
    /\ FromMapReturned
    /\ DOMAIN map[1] = {"AccessKeyId", "SecretAccessKey", "Expiration"}
    /\ map[1]["Expiration"] = "2030-01-01T01:00:00+01:00"
    /\ fromMapResult[1].ok
    /\ fromMapResult[1].val.session_token = None
    /\ fromMapResult[1].val.expires_after = Some(1893456000)

C15_WitnessTokenOnly ==
    /\ FromMapReturned
    /\ DOMAIN map[1] = {"AccessKeyId", "SecretAccessKey", "Token"}
    /\ fromMapResult[1].ok
    /\ fromMapResult[1].val.session_token = Some("tok")
    /\ fromMapResult[1].val.expires_after = None
\* The number of failed attempts of thread c, and of those the ones its loop
\* went on from (all but the failure it returned).
OwnFailures(c) == Len(FailuresOf(calls[c].outs))

OwnRetried(c) ==
    IF SendKind(c) \in {"Api", "Transport"} THEN OwnFailures(c) - 1 ELSE OwnFailures(c)

\* C20: operations running at once on one Api value do not interfere.  No
\* step changes the Api's credentials or region; a step of one thread leaves
\* the locals of every other thread as they are; and what a thread's loop has
\* done follows from the answers to its own attempts alone: its counter is
\* the number of its own failures it retried, it has slept 10 ms times that
\* counter after its own second and third failure only, it returns Ok on its
\* own first success and an error only at its own fourth failure, whatever
\* the other thread went through.
C20_CallsDoNotInterfere ==
    /\ [][ api' = api ]_vars
    /\ [][ \A c \in Calls :
              calls'[c] # calls[c] => \A d \in Calls \ {c} : calls'[d] = calls[d] ]_vars
    /\ [](\A c \in Calls :
            Looped(c) =>
              /\ Len(calls[c].sent) = Len(calls[c].outs)
              /\ calls[c].retries = OwnRetried(c)
              /\ calls[c].sleeps = SleepsAfter(OwnRetried(c), 10, 1)
              /\ SendKind(c) = "Ok" <=>
                    (calls[c].outs # <<>> /\ calls[c].outs[Len(calls[c].outs)].kind = "Ok")
              /\ SendKind(c) \in {"Api", "Transport"} <=> OwnFailures(c) = 4
              /\ calls[c].req[1] = sign_request(Draft(calls[c].op,
                                                      CHOOSE in \in Inputs(calls[c].op) : TRUE,
                                                      api.region),
                                                calls[c].body, api.credentials, api.region,
                                                ServiceOf(calls[c].op), clock))

\* Two calls of the same operation on the one Api: one failed four times and
\* returned its last failure, the other succeeded at its first attempt
\* without a sleep.
C20_Witness ==
    /\ calls["a"].op = "get_secret_value" /\ calls["b"].op = "get_secret_value"
    /\ calls["a"].pc = "done" /\ calls["b"].pc = "done"
    /\ OwnFailures("a") = 4 /\ ~calls["a"].result[1].ok
    /\ Len(calls["b"].sent) = 1 /\ calls["b"].sleeps = <<>>
    /\ calls["b"].result[1].ok

\* Both in their loops, at different counters.
C20_WitnessRunning ==
    /\ calls["a"].op = "attach_volume" /\ calls["b"].op = "attach_volume"
    /\ calls["a"].pc = "loop" /\ calls["b"].pc = "loop"
    /\ calls["a"].retries = 3 /\ calls["b"].retries = 1
(***************************************************************************)
(* Properties of Imds::get_credentials (specification SpecCreds).          *)
(***************************************************************************)
\* The HTTP calls of a whole invocation that finds no token, and of one that
\* finds one.
PutCall == [method |-> "PUT", path |-> TokenPath, token |-> ""]
GetCall(path) == [method |-> "GET", path |-> path, token |-> cell.value]
IsPrefix(a, b) == Len(a) <= Len(b) /\ a = SubSeq(b, 1, Len(a))

\* get_credentials has returned from its current invocation.
CredsReturned == cpc = "idle" /\ credsResult # None

\* C21: the HTTP calls of one invocation of get_credentials are, in this
\* order, the token PUT (only from a cell with no token), the GET of the role
\* name and the GET of the role's credentials, each at most once; the parsing
\* comes after both GETs; and once a step has failed the invocation has
\* returned that error and makes no further call.
C21_CredentialsStepsInOrder ==
    /\ [](\/ IsPrefix(http, << GetCall(RolePath), GetCall(CredentialsPath("role-a")) >>)
          \/ IsPrefix(http, << PutCall, GetCall(RolePath),
                               GetCall(CredentialsPath("role-a")) >>))
    /\ [](document # None =>
            /\ Len(http) >= 2
            /\ http[Len(http)] = GetCall(CredentialsPath("role-a"))
            /\ http[Len(http) - 1] = GetCall(RolePath))
    /\ []((CredsReturned /\ credsResult[1].ok) => document # None)
    /\ []((cpc \notin {"idle", "role"} /\ http # <<>> /\ http[1] = PutCall) =>
            cell.value = TokenOf(invocations))
    /\ [][ (Len(http') = Len(http) + 1 /\ http'[Len(http')].method = "PUT")
             => cell.state # "COMPLETE" ]_vars
    /\ [][ (cell.state = "COMPLETE" /\ cpc # "idle")
             => \A i \in 1..Len(http') : http'[i].method # "PUT" \/ i <= Len(http) ]_vars
    /\ [][ CredsReturned => (http' = http \/ (cpc' = "role" /\ http' = <<>>)) ]_vars
    /\ [][ (cpc # "idle" /\ cpc' = "idle" /\ ~credsResult'[1].ok /\ document' = None)
             => (Len(http') = Len(http) + 1 /\ role' = role) ]_vars

\* A first invocation that bootstraps the token and returns credentials, and
\* a second one that finds the token and makes the two GETs only.
C21_Witness ==
    /\ invocations = 1
    /\ CredsReturned /\ credsResult[1].ok
    /\ http = << PutCall, GetCall(RolePath), GetCall(CredentialsPath("role-a")) >>

C21_WitnessCached ==
    /\ invocations = 2
    /\ CredsReturned /\ credsResult[1].ok
    /\ http = << GetCall(RolePath), GetCall(CredentialsPath("role-a")) >>

\* The role lookup failed: one GET after the PUT, an error, no role.
C21_WitnessRoleFailed ==
    /\ CredsReturned /\ ~credsResult[1].ok
    /\ credsResult[1].val.kind = "Request"
    /\ http = << PutCall, GetCall(RolePath) >>
    /\ role = None
(***************************************************************************)
(* More properties of the send loop (specifications Spec and SpecFair).    *)
(***************************************************************************)
\* The sleeps of non-zero duration.
NonZeroSleeps == SelectSeq(sleeps, LAMBDA s : s.ms > 0)

\* The part of C23 that is about the order of sleeps and attempts: a sleep is
\* taken only in a step that fails and stays in the loop (not at a success,
\* not at the failure that is returned), every sleep taken is followed by a
\* transmission, and when send() has returned every sleep has a transmission
\* after it.
SleepsThenAttempts ==
    /\ [][ Len(sleeps') > Len(sleeps) =>
             (pc' = "loop" /\ ~Returned' /\ Len(failures') = Len(failures) + 1) ]_vars
    /\ [](Returned => \A i \in 1..Len(sleeps) : sleeps[i].after < Len(sent))
    /\ \A k \in 1..(EC2_RETRY_LIMIT - 1) :
          (Len(sleeps) >= k) ~> (Len(sleeps) >= k /\ Len(sent) > sleeps[k].after)

\* C23 as stated: the above, and the sleeps of non-zero duration are always
\* fewer than the retries performed (the counter), in every state of a loop
\* that has made an attempt.
C23_SleepsFewerThanRetries ==
    /\ SleepsThenAttempts
    /\ [](sent # <<>> => Len(NonZeroSleeps) < retries)

\* C23 as amended: the above, and the sleeps of non-zero duration are one
\* fewer than the retries performed once a retry has been performed, and
\* none before (a call that succeeds at its first attempt has no retry and no
\* sleep).
C23_SleepsOneFewerThanRetries ==
    /\ SleepsThenAttempts
    /\ [](retries > 0 => Len(NonZeroSleeps) = retries - 1)
    /\ [](retries = 0 => sleeps = <<>>)

\* Four failures: three retries, two sleeps, each followed by an attempt.
C23_Witness ==
    /\ Exhausted
    /\ retries = 3
    /\ Len(NonZeroSleeps) = 2
    /\ Len(sent) = 4
    /\ sleeps[2].after = 3

\* A success at the first attempt: no retry, no sleep.
C23_WitnessNoRetry ==
    /\ Succeeded
    /\ Len(sent) = 1
    /\ retries = 0
    /\ sleeps = <<>>
\* The total time slept, in ms.
RECURSIVE TotalSlept(_)
TotalSlept(ss) == IF ss = <<>> THEN 0 ELSE ss[1].ms + TotalSlept(Tail(ss))

\* C24: in every reachable state the retry counter is in 0..3, the
\* transmissions made so far are at most the counter plus one, so never more
\* than 4 in one operation, and the time slept in one operation is at most
\* 30 ms.
C24_CounterAndTotalsBounded ==
    /\ retries \in 0..3
    /\ Len(sent) <= retries + 1
    /\ Len(sent) <= 4
    /\ TotalSlept(sleeps) <= 30

\* The bounds are met: an s3 call that failed four times.
C24_Witness ==
    /\ op = "list_objects_v2"
    /\ Exhausted
    /\ retries = 3
    /\ Len(sent) = 4
    /\ TotalSlept(sleeps) = 30
(***************************************************************************)
(* More properties of Imds::get (specification SpecImds).                  *)
(***************************************************************************)
\* The step in which the token fetch of thread t fails.
FetchFails(t) ==
    /\ tpc[t] = "fetching"
    /\ Len(puts') = Len(puts)
    /\ puts'[InFlight(t)].status = "failed"

\* C25: when the token fetch of a call fails, the call returns an Io error in
\* that step, without a metadata GET, and leaves the cell without a token; a
\* call that then finds the cell so issues the PUT again; and the cell never
\* holds anything but the token of a PUT that succeeded.
C25_FailedFetchNotCached ==
    /\ [][ \A t \in Callers :
              FetchFails(t) =>
                /\ tresult'[t] = "Io"
                /\ tpc'[t] = "idle"
                /\ gets' = gets
                /\ cell' = [state |-> "INCOMPLETE", value |-> ""] ]_vars
    /\ [][ \A t \in Callers :
              (tpc[t] = "init" /\ tpc'[t] # "init" /\ cell.state = "INCOMPLETE") =>
                /\ Len(puts') = Len(puts) + 1
                /\ puts'[Len(puts')] = [by |-> t, status |-> "inflight"] ]_vars
    /\ [](cell.state = "COMPLETE" =>
            \E k \in 1..Len(puts) : puts[k].status = "ok" /\ cell.value = TokenOf(k))
    /\ [](cell.state # "COMPLETE" => cell.value = "")

\* The first call of thread 1 failed at the token fetch; its second call
\* fetched again, got a token and made its GET with it.
C25_Witness ==
    /\ Len(puts) = 2
    /\ puts[1] = [by |-> 1, status |-> "failed"]
    /\ puts[2] = [by |-> 1, status |-> "ok"]
    /\ tcalls[1] = 2
    /\ gets = << [by |-> 1, token |-> TokenOf(2)] >>
    /\ cell = [state |-> "COMPLETE", value |-> TokenOf(2)]

\* A failed fetch just returned: an Io error, no GET, the cell empty.
C25_WitnessFailed ==
    /\ Len(puts) = 1
    /\ puts[1] = [by |-> 1, status |-> "failed"]
    /\ tresult[1] = "Io"
    /\ tpc[1] = "idle"
    /\ gets = <<>>
    /\ cell = [state |-> "INCOMPLETE", value |-> ""]
(***************************************************************************)
(* More properties of Credentials::from_map (specification SpecFromMap).   *)
(***************************************************************************)
\* The map from_map was given has an Expiration that is not RFC3339.
BadExpiration ==
    /\ FromMapReturned
    /\ "Expiration" \in DOMAIN map[1]
    /\ ~ParseRfc3339(map[1]["Expiration"]).ok

\* from_map returned an Io error of kind InvalidInput.
IsInvalidInput ==
    /\ ~fromMapResult[1].ok
    /\ fromMapResult[1].val.kind = "Io"
    /\ fromMapResult[1].val.io = "InvalidInput"

\* from_map returned Credentials without an expiry only on a map without
\* Expiration.
NoExpiryOnlyWithoutExpiration ==
    (FromMapReturned /\ fromMapResult[1].ok /\ fromMapResult[1].val.expires_after = None) =>
        "Expiration" \notin DOMAIN map[1]

\* C26 as stated: on every map whose Expiration is present and not RFC3339
\* from_map returns an InvalidInput error, and Credentials without an expiry
\* come from maps without Expiration only.
C26_BadExpirationIsInvalidInput ==
    /\ BadExpiration => IsInvalidInput
    /\ NoExpiryOnlyWithoutExpiration

\* C26: on a map whose Expiration is present and not RFC3339 from_map
\* returns an error and no Credentials: InvalidInput if the map has both
\* AccessKeyId and SecretAccessKey, and the NotFound of the missing key
\* otherwise, the keys being looked up first; Credentials without an expiry
\* come from maps without Expiration only.
C26_BadExpirationIsAnError ==
    /\ BadExpiration =>
          /\ ~fromMapResult[1].ok
          /\ fromMapResult[1].val.kind = "Io"
          /\ fromMapResult[1].val.io =
               (IF {"AccessKeyId", "SecretAccessKey"} \subseteq DOMAIN map[1]
                  THEN "InvalidInput" ELSE "NotFound")
    /\ NoExpiryOnlyWithoutExpiration

\* A complete document whose Expiration is a date without a time.
C26_Witness ==
    /\ FromMapReturned
    /\ DOMAIN map[1] = MapKeys
    /\ map[1]["Expiration"] = "2030-01-01"
    /\ fromMapResult[1] = Err(IoError("InvalidInput", "Unable to parse expiration"))

\* The same without SecretAccessKey: the error is the missing key's.
C26_WitnessMissingKey ==
    /\ FromMapReturned
    /\ DOMAIN map[1] = {"AccessKeyId", "Expiration"}
    /\ map[1]["Expiration"] = "tomorrow"
    /\ fromMapResult[1] = Err(IoError("NotFound", "SecretAccessKey not found"))
(***************************************************************************)
(* Properties of the EC2 parameter lists (specification SpecParams).       *)
(***************************************************************************)
\* The vector of an optional field, empty if the field is absent.
VecOf(field) == IF field = None THEN <<>> ELSE field[1]

RECURSIVE FiltersEnd(_, _)
\* The number of parameters up to and including the n-th filter's: Action,
\* Version, and for each filter its Name and its values.
FiltersEnd(filters, n) ==
    IF n = 0 THEN 2 ELSE FiltersEnd(filters, n - 1) + 1 + Len(filters[n].values)

\* C27: the parameters of describe_volumes are, position by position:
\* Action, Version; for the i-th filter (from 1) "Filter.i.Name" and then
\* "Filter.i.Value.j" for its j-th value (from 1), filter after filter;
\* MaxResults if given; NextToken if given; "VolumeId.i" for the i-th volume
\* id (from 1); and nothing else.
C27_ParamsFlattenedInOrder ==
    dvParams # None =>
        LET in == dvInput[1]
            ps == dvParams[1]
            filters == VecOf(in.filters)
            ids == VecOf(in.volume_ids)
            m == FiltersEnd(filters, Len(filters))
            a == m + (IF in.max_results # None THEN 1 ELSE 0)
            b == a + (IF in.next_token # None THEN 1 ELSE 0)
        IN /\ Len(ps) = b + Len(ids)
           /\ ps[1] = <<"Action", "DescribeVolumes">>
           /\ ps[2] = <<"Version", "2016-11-15">>
           /\ \A i \in 1..Len(filters) :
                LET at == FiltersEnd(filters, i - 1)
                    name == "Filter." \o ToString(i)
                IN /\ ps[at + 1] = <<name \o ".Name", filters[i].name>>
                   /\ \A j \in 1..Len(filters[i].values) :
                        ps[at + 1 + j] =
                            <<name \o ".Value." \o ToString(j), filters[i].values[j]>>
           /\ in.max_results # None => ps[a] = <<"MaxResults", ToString(in.max_results[1])>>
           /\ in.next_token # None => ps[b] = <<"NextToken", in.next_token[1]>>
           /\ \A i \in 1..Len(ids) : ps[b + i] = <<"VolumeId." \o ToString(i), ids[i]>>

\* Two filters, the first with two values and the second with none, both
\* scalars and two volume ids.
C27_Witness ==
    /\ dvInput = Some([filters |-> Some(<< [name |-> "status",
                                            values |-> <<"in-use", "available">>],
                                           [name |-> "size", values |-> <<>>] >>),
                       max_results |-> Some(5), next_token |-> Some("nt"),
                       volume_ids |-> Some(<<"vol-2", "vol-1">>)])
    /\ dvParams = Some(<< <<"Action", "DescribeVolumes">>, <<"Version", "2016-11-15">>,
                          <<"Filter.1.Name", "status">>, <<"Filter.1.Value.1", "in-use">>,
                          <<"Filter.1.Value.2", "available">>, <<"Filter.2.Name", "size">>,
                          <<"MaxResults", "5">>, <<"NextToken", "nt">>,
                          <<"VolumeId.1", "vol-2">>, <<"VolumeId.2", "vol-1">> >>)

\* Nothing optional given, and vectors given but empty: Action and Version
\* only.
C27_WitnessAbsent ==
    /\ dvInput = Some([filters |-> None, max_results |-> None, next_token |-> None,
                       volume_ids |-> None])
    /\ dvParams = Some(<< <<"Action", "DescribeVolumes">>, <<"Version", "2016-11-15">> >>)

C27_WitnessEmptyVectors ==
    /\ dvInput = Some([filters |-> Some(<<>>), max_results |-> None, next_token |-> None,
                       volume_ids |-> Some(<<>>)])
    /\ dvParams = Some(<< <<"Action", "DescribeVolumes">>, <<"Version", "2016-11-15">> >>)
====
